---- MODULE Spec2Model ----
(***************************************************************************)
(* Model of stundensatz-kalkulation-plus: the hourly-rate calculation      *)
(* (lib.py, calc_hourwages) and the SQLite scenario store (lib.py,         *)
(* init_db / save_scenario / get_all_scenarios / get_scenario /            *)
(* delete_scenario), with the save form of main.py.                        *)
(*                                                                         *)
(* Numbers.  Python floats are modelled as exact rationals <<n, d>> with   *)
(* d > 0 in lowest terms; round(x, 2) yields an integer number of cents    *)
(* (hundredths), rounding half to even as Python's round does.  The stored *)
(* REAL columns hold these values unchanged.  The representation error of  *)
(* binary floats is not modelled: where the exact value lies exactly       *)
(* halfway between two hundredths, the float may round to either one.      *)
(***************************************************************************)
EXTENDS Integers, Sequences, FiniteSets, TLC

VARIABLES
    tableExists,   \* the scenarios table exists in stundenlohn_scenarios.db
    rows,          \* the rows of table scenarios
    seq,           \* sqlite_sequence entry of scenarios (AUTOINCREMENT)
    now,           \* CURRENT_TIMESTAMP, in whole seconds
    issued,        \* history: identifiers returned by successful saves
    ret            \* the last call: [op, args, result]

vars == <<tableExists, rows, seq, now, issued, ret>>

(***************************************************************************)
(* Bounds of the model.                                                    *)
(***************************************************************************)
MaxSaves == 2          \* inserts per behaviour
MaxClock == 1          \* seconds the clock may advance
MaxWorkers == 3        \* largest worker_amount given to calc_hourwages
MaxHalfHours == 4      \* largest hours given to calc_hourwages, in halves

(***************************************************************************)
(* Exact rational arithmetic standing for Python's float arithmetic.       *)
(***************************************************************************)
Abs(n) == IF n < 0 THEN -n ELSE n

RECURSIVE GCD(_, _)
GCD(a, b) == IF b = 0 THEN a ELSE GCD(b, a % b)

Norm(n, d) == LET g == GCD(Abs(n), d) IN <<n \div g, d \div g>>

Rat(n) == <<n, 1>>

RAdd(a, b) ==
    LET g == GCD(a[2], b[2])
    IN  Norm(a[1] * (b[2] \div g) + b[1] * (a[2] \div g), (a[2] \div g) * b[2])

RNeg(a) == <<-a[1], a[2]>>

RSub(a, b) == RAdd(a, RNeg(b))

RMul(a, b) ==
    LET g1 == GCD(Abs(a[1]), b[2])
        g2 == GCD(Abs(b[1]), a[2])
    IN  Norm((a[1] \div g1) * (b[1] \div g2), (a[2] \div g2) * (b[2] \div g1))

RInv(a) == IF a[1] < 0 THEN <<-a[2], -a[1]>> ELSE <<a[2], a[1]>>

RDiv(a, b) == RMul(a, RInv(b))

RLeq(a, b) == a[1] * b[2] <= b[1] * a[2]

\* Faulty variant: the value is cut off after the second decimal.
Truncate2(x) == (x[1] \div x[2]) * 100 + (((x[1] % x[2]) * 100) \div x[2])

\* round(x, 2): the nearest hundredth, ties to the even one, in cents.
Round2(x) ==
    LET whole == x[1] \div x[2]
        n == (x[1] % x[2]) * 100
        q == whole * 100 + (n \div x[2])
        r == n % x[2]
    IN  IF 2 * r < x[2] THEN q
        ELSE IF 2 * r > x[2] THEN q + 1
        ELSE IF q % 2 = 0 THEN q ELSE q + 1

\* The literal 0.6 of the redistribution ("Verdampfung") step.
ChefShare == <<3, 5>>

\* The tuple of the except branch: 0.0, 0.0, 0.0, 0.0, 0.0.
DefaultValues == <<0, 0, 0, 0, 0>>

(***************************************************************************)
(* calc_hourwages.  An argument tuple is                                   *)
(* <<worker_amount, individual_costs, overhead_costs, hours,               *)
(*   earning_percentage, vat_percentage, geld_f_chefchen>>.                *)
(***************************************************************************)
\* The two validations that raise ValueError.
RaisesValueError(worker_amount, hours) ==
    \/ worker_amount <= 0
    \/ RLeq(hours, Rat(0))

\* Faulty variant: the deduction from brutto is left out.
BruttoUnreduced(brutto, chef_kondensat) == brutto

\* Faulty variant: chef_kondensat is added to brutto, not deducted.
BruttoPlusChef(brutto, chef_kondensat) == RAdd(brutto, chef_kondensat)

\* brutto after the optional deduction of chef_kondensat.
BruttoAfterChef(brutto, chef_kondensat) == RSub(brutto, chef_kondensat)

\* chef_kondensat, from the difference before it is reduced.
ChefKondensat(netto_selbstkosten_diff, earning_percentage) ==
    RMul(netto_selbstkosten_diff, RMul(ChefShare, earning_percentage))

\* Faulty variant: every step is rounded, and the next step starts from the
\* rounded value.
UnroundedRoundingEachStep(worker_amount, individual_costs, overhead_costs, hours, earning_percentage, vat_percentage, geld_f_chefchen) ==
    LET gesamt_einzelkosten == RMul(Rat(worker_amount), individual_costs)
        selbstkosten == RAdd(gesamt_einzelkosten, overhead_costs)
        verrechenbare_stunden == RMul(Rat(worker_amount), hours)
        selbstkostensatz ==
            Norm(Round2(RDiv(selbstkosten, verrechenbare_stunden)), 100)
        netto ==
            Norm(Round2(RMul(selbstkostensatz,
                             RAdd(Rat(1), earning_percentage))), 100)
        brutto == RMul(netto, RAdd(Rat(1), vat_percentage))
        netto_selbstkosten_diff == RSub(netto, selbstkostensatz)
        chef_kondensat ==
            IF geld_f_chefchen
            THEN ChefKondensat(netto_selbstkosten_diff, earning_percentage)
            ELSE Rat(0)
    IN  IF geld_f_chefchen
        THEN <<selbstkostensatz, netto,
               BruttoAfterChef(brutto, chef_kondensat),
               RSub(netto_selbstkosten_diff, chef_kondensat), chef_kondensat>>
        ELSE <<selbstkostensatz, netto, brutto, netto_selbstkosten_diff,
               chef_kondensat>>

\* The five values before rounding, for inputs that pass validation.
Unrounded(worker_amount, individual_costs, overhead_costs, hours, earning_percentage, vat_percentage, geld_f_chefchen) ==
    LET gesamt_einzelkosten == RMul(Rat(worker_amount), individual_costs)
        selbstkosten == RAdd(gesamt_einzelkosten, overhead_costs)
        verrechenbare_stunden == RMul(Rat(worker_amount), hours)
        selbstkostensatz == RDiv(selbstkosten, verrechenbare_stunden)
        netto == RMul(selbstkostensatz, RAdd(Rat(1), earning_percentage))
        brutto == RMul(netto, RAdd(Rat(1), vat_percentage))
        netto_selbstkosten_diff == RSub(netto, selbstkostensatz)
        chef_kondensat ==
            IF geld_f_chefchen
            THEN ChefKondensat(netto_selbstkosten_diff, earning_percentage)
            ELSE Rat(0)
    IN  IF geld_f_chefchen
        THEN <<selbstkostensatz, netto,
               BruttoAfterChef(brutto, chef_kondensat),
               RSub(netto_selbstkosten_diff, chef_kondensat), chef_kondensat>>
        ELSE <<selbstkostensatz, netto, brutto, netto_selbstkosten_diff,
               chef_kondensat>>

\* What the except branch of calc_hourwages returns.
OnCalculationError == DefaultValues

calc_hourwages(worker_amount, individual_costs, overhead_costs, hours, earning_percentage, vat_percentage, geld_f_chefchen) ==
    IF RaisesValueError(worker_amount, hours)
    THEN OnCalculationError
    ELSE LET u == Unrounded(worker_amount, individual_costs, overhead_costs,
                            hours, earning_percentage, vat_percentage,
                            geld_f_chefchen)
         IN  <<Round2(u[1]), Round2(u[2]), Round2(u[3]), Round2(u[4]),
               Round2(u[5])>>

Calc(a) == calc_hourwages(a[1], a[2], a[3], a[4], a[5], a[6], a[7])

(***************************************************************************)
(* The scenarios table.  A row is a record with the columns of init_db.    *)
(***************************************************************************)
\* Optional[Dict]: None is the empty set, a found row r is {r}.
None == {}

Ids == {r.id : r \in rows}

Max(a, b) == IF a >= b THEN a ELSE b

\* The largest rowid in the table, 0 when it is empty.
MaxRowid == IF rows = {} THEN 0 ELSE CHOOSE i \in Ids : \A j \in Ids : j <= i

\* Faulty variant: INTEGER PRIMARY KEY without AUTOINCREMENT: one more than the largest rowid
\* now in the table.
NextRowidReusing == MaxRowid + 1

\* id INTEGER PRIMARY KEY AUTOINCREMENT: one more than the largest rowid the
\* table has ever held, which SQLite keeps in sqlite_sequence.
NextRowid == Max(seq, MaxRowid) + 1

\* Faulty variant: netto and brutto bound to each other's column.
InsertedRowSwapped(id, name, description, a, t) ==
    LET r == Calc(a)
    IN  [id |-> id, name |-> name, description |-> description,
         worker_amount |-> a[1], individual_costs |-> a[2],
         overhead_costs |-> a[3], hours |-> a[4],
         earning_percentage |-> a[5], vat_percentage |-> a[6],
         selbstkostensatz |-> r[1], netto |-> r[3], brutto |-> r[2],
         netto_selbstkosten_diff |-> r[4], geld_fuer_chefchen |-> r[5],
         created_at |-> t]

\* The row the INSERT statement of save_scenario creates.
InsertedRow(id, name, description, a, t) ==
    LET r == Calc(a)
    IN  [id |-> id, name |-> name, description |-> description,
         worker_amount |-> a[1], individual_costs |-> a[2],
         overhead_costs |-> a[3], hours |-> a[4],
         earning_percentage |-> a[5], vat_percentage |-> a[6],
         selbstkostensatz |-> r[1], netto |-> r[2], brutto |-> r[3],
         netto_selbstkosten_diff |-> r[4], geld_fuer_chefchen |-> r[5],
         created_at |-> t]

\* What save_scenario returns: cursor.lastrowid, or -1 from the except branch
\* (the INSERT raises when the table does not exist).
SaveResult == IF tableExists THEN NextRowid ELSE -1

\* The effect of save_scenario on the database; t is CURRENT_TIMESTAMP.
save_scenario(name, description, a, t) ==
    IF tableExists
    THEN /\ rows' = rows \cup {InsertedRow(NextRowid, name, description, a, t)}
         /\ seq' = Max(seq, NextRowid)
         /\ issued' = issued \cup {NextRowid}
         /\ now' = t
         /\ UNCHANGED tableExists
    ELSE /\ t = now
         /\ UNCHANGED <<tableExists, rows, seq, issued, now>>

\* SELECT * FROM scenarios WHERE id = ? ; fetchone; None in the except branch.
SelectById(exists, table, scenario_id) ==
    IF exists
    THEN {r \in table : r.id = scenario_id}
    ELSE None

get_scenario(scenario_id) == SelectById(tableExists, rows, scenario_id)

\* SELECT * FROM scenarios ORDER BY created_at DESC: every order of the rows
\* with created_at non-increasing (SQL leaves the order of ties open).
OrderByCreatedAtDesc ==
    LET n == Cardinality(rows)
    IN  {s \in [1..n -> rows] :
            /\ \A i, j \in 1..n : i # j => s[i] # s[j]
            /\ \A i, j \in 1..n : i < j => s[i].created_at >= s[j].created_at}

\* What get_all_scenarios may return; [] from the except branch.
get_all_scenarios == IF tableExists THEN OrderByCreatedAtDesc ELSE {<<>>}

\* cursor.rowcount > 0 after the DELETE; False from the except branch.
DeleteResult(scenario_id) == tableExists /\ scenario_id \in Ids

\* Faulty variant: DELETE without the WHERE clause once the identifier matches.
RowsAfterDeleteAll(scenario_id) ==
    IF tableExists /\ scenario_id \in Ids THEN {} ELSE rows

\* DELETE FROM scenarios WHERE id = ?
RowsAfterDelete(scenario_id) ==
    IF tableExists THEN {r \in rows : r.id # scenario_id} ELSE rows

(***************************************************************************)
(* Inputs.                                                                 *)
(***************************************************************************)
Names == {"", "a"}
Descriptions == {"d"}
SaveArgs ==
    {<<w, Rat(10), Rat(5), h, <<1, 2>>, <<19, 100>>, chef>> :
        w \in {0, 2}, h \in {Rat(0), Rat(1)}, chef \in BOOLEAN}
LookupIds == 0..(MaxSaves + 1)

CalcArgs ==
    {<<w, ic, oc, <<hh, 2>>, ep, vp, chef>> :
        w \in (-1)..MaxWorkers,
        ic \in {Rat(0), Rat(1), Rat(7), Rat(100)},
        oc \in {Rat(0), Rat(5), Rat(33)},
        hh \in (-1)..MaxHalfHours,
        ep \in {Rat(0), <<3, 20>>, <<1, 2>>, Rat(1)},
        vp \in {Rat(0), <<7, 100>>, <<19, 100>>},
        chef \in BOOLEAN}

(***************************************************************************)
(* The operations.                                                         *)
(***************************************************************************)
Init ==
    /\ tableExists = FALSE
    /\ rows = {}
    /\ seq = 0
    /\ now = 0
    /\ issued = {}
    /\ ret = [op |-> "start", args |-> <<>>, result |-> <<>>]

InitDb ==
    /\ tableExists' = TRUE
    /\ ret' = [op |-> "init", args |-> <<>>, result |-> <<>>]
    /\ UNCHANGED <<rows, seq, now, issued>>

SaveScenario(name, description, a, t) ==
    /\ seq < MaxSaves
    /\ save_scenario(name, description, a, t)
    /\ ret' = [op |-> "save", args |-> <<name, description, a>>,
               result |-> SaveResult]

GetAllScenarios ==
    /\ \E s \in get_all_scenarios :
          ret' = [op |-> "list", args |-> <<>>, result |-> s]
    /\ UNCHANGED <<tableExists, rows, seq, now, issued>>

GetScenario(scenario_id) ==
    /\ ret' = [op |-> "get", args |-> <<scenario_id>>,
               result |-> get_scenario(scenario_id)]
    /\ UNCHANGED <<tableExists, rows, seq, now, issued>>

DeleteScenario(scenario_id) ==
    /\ rows' = RowsAfterDelete(scenario_id)
    /\ ret' = [op |-> "delete", args |-> <<scenario_id>>,
               result |-> DeleteResult(scenario_id)]
    /\ UNCHANGED <<tableExists, seq, now, issued>>

\* The ranges the input widgets of main.py allow (min_value, max_value).
WidgetRange(a) ==
    /\ a[1] >= 1
    /\ RLeq(Rat(0), a[2])
    /\ RLeq(Rat(0), a[3])
    /\ RLeq(<<1, 10>>, a[4])
    /\ RLeq(Rat(0), a[5]) /\ RLeq(a[5], Rat(1))
    /\ RLeq(Rat(0), a[6]) /\ RLeq(a[6], Rat(1))

\* The form "save_scenario_form" of main.py: save_scenario is called only
\* with a non-empty name; st.success when the identifier is positive,
\* st.error otherwise; nothing is shown for an empty name.
SaveScenarioForm(scenario_name, scenario_description, a, t) ==
    /\ seq < MaxSaves
    /\ WidgetRange(a)
    /\ IF scenario_name # ""
       THEN /\ save_scenario(scenario_name, scenario_description, a, t)
            /\ ret' = [op |-> "form",
                       args |-> <<scenario_name, scenario_description, a>>,
                       result |-> IF SaveResult > 0 THEN "success" ELSE "error"]
       ELSE /\ t = now
            /\ ret' = [op |-> "form",
                       args |-> <<scenario_name, scenario_description, a>>,
                       result |-> "ignored"]
            /\ UNCHANGED <<tableExists, rows, seq, now, issued>>

Next ==
    \/ InitDb
    \/ \E name \in Names, description \in Descriptions, a \in SaveArgs,
          t \in now..MaxClock :
          SaveScenario(name, description, a, t)
    \/ \E name \in Names, description \in Descriptions, a \in SaveArgs,
          t \in now..MaxClock :
          SaveScenarioForm(name, description, a, t)
    \/ GetAllScenarios
    \/ \E scenario_id \in LookupIds : GetScenario(scenario_id)
    \/ \E scenario_id \in LookupIds : DeleteScenario(scenario_id)

Spec == Init /\ [][Next]_vars

\* The example call of lib.py's __main__ block, which is also the default
\* value of every input widget of main.py (8, 60000, 230000, 1512, 15 %, 19 %,
\* checkbox off).
ExampleArgs ==
    <<8, Rat(60000), Rat(230000), Rat(1512), <<3, 20>>, <<19, 100>>, FALSE>>

CalcInputs == CalcArgs \cup {ExampleArgs}

\* The pricing engine alone.  The inputs are those of the input widgets of
\* main.py, drawn at the start; every rerun of the script calls
\* calc_hourwages on them, and the "Verdampfung" checkbox flips
\* geld_f_chefchen between reruns.
InitCalc ==
    /\ tableExists = FALSE
    /\ rows = {}
    /\ seq = 0
    /\ now = 0
    /\ issued = {}
    /\ \E a \in CalcInputs :
          ret = [op |-> "input", args |-> a, result |-> <<>>]

CalcHourwages ==
    /\ ret.op = "input"
    /\ ret' = [op |-> "calc", args |-> ret.args, result |-> Calc(ret.args)]
    /\ UNCHANGED <<tableExists, rows, seq, now, issued>>

WithChef(a, chef) == <<a[1], a[2], a[3], a[4], a[5], a[6], chef>>

ToggleChef ==
    /\ ret.op = "calc"
    /\ LET a == WithChef(ret.args, ~ret.args[7])
       IN  ret' = [op |-> "calc", args |-> a, result |-> Calc(a)]
    /\ UNCHANGED <<tableExists, rows, seq, now, issued>>

NextCalc == CalcHourwages \/ ToggleChef

SpecCalc == InitCalc /\ [][NextCalc]_vars

(***************************************************************************)
(* Claims.                                                                 *)
(***************************************************************************)
\* The arguments of the call recorded in ret that calc_hourwages rejects.
SaveRejected(r) == RaisesValueError(r.args[3][1], r.args[3][4])

\* C1: a call of calc_hourwages with worker_amount <= 0 or hours <= 0 never
\* returns a tuple that a call with valid arguments returns as well (the
\* failure can be told apart from a successful result).
C1_InvalidInputDistinguishable ==
    (ret.op = "calc" /\ RaisesValueError(ret.args[1], ret.args[4]))
        => \A b \in CalcArgs :
              ~RaisesValueError(b[1], b[4]) => Calc(b) # ret.result

\* C2: a save whose worker_amount or hours the calculation rejects reports a
\* failure (no positive identifier) and leaves the table unchanged.
C2_RejectedSaveChangesNothing ==
    [][(ret'.op = "save" /\ SaveRejected(ret'))
          => (ret'.result <= 0 /\ rows' = rows)]_vars

\* C3: the result columns of a row are determined by its input columns: two
\* rows with equal input columns have equal result columns.
InputColumns(r) ==
    <<r.worker_amount, r.individual_costs, r.overhead_costs, r.hours,
      r.earning_percentage, r.vat_percentage>>

ResultColumns(r) ==
    <<r.selbstkostensatz, r.netto, r.brutto, r.netto_selbstkosten_diff,
      r.geld_fuer_chefchen>>

C3_ResultsDeterminedByInputs ==
    \A r1, r2 \in rows :
        InputColumns(r1) = InputColumns(r2)
            => ResultColumns(r1) = ResultColumns(r2)

\* C4: a save with an empty name fails (no positive identifier) and leaves the
\* table unchanged, whatever the other arguments are.
C4_EmptyNameRejected ==
    [][(ret'.op = "save" /\ ret'.args[1] = "")
          => (ret'.result <= 0 /\ rows' = rows)]_vars

\* C5: with every saved scenario still in the table (N successful saves, no
\* delete), get_all_scenarios returns exactly the N scenarios, the most
\* recently saved first, also when saves share a creation timestamp.
C5_ListNewestFirst ==
    (ret.op = "list" /\ Ids = issued)
        => /\ Len(ret.result) = Cardinality(issued)
           /\ \A i, j \in 1..Len(ret.result) :
                 i < j => ret.result[i].id > ret.result[j].id

\* C6: every identifier a successful save returns is greater than every
\* identifier returned before, deleted or not, and the rows of the table
\* have pairwise different identifiers.
C6_IdentifiersIncrease ==
    [][(ret'.op = "save" /\ ret'.result > 0)
          => /\ \A i \in issued : ret'.result > i
             /\ \A r1, r2 \in rows' : r1.id = r2.id => r1 = r2]_vars

\* C6 witness: a save returned an identifier after an earlier scenario was
\* deleted.
C6_Witness ==
    /\ ret.op = "save"
    /\ ret.result > 1
    /\ \E i \in issued : i < ret.result /\ i \notin Ids

\* C7: after a successful save the row found under the returned identifier
\* holds the name, description and inputs passed and the results of
\* calc_hourwages on them; a row found under an identifier stays exactly as
\* it is (creation timestamp included) through every later call except a
\* delete of that identifier; and get_scenario returns that row.
C7_SaveGetRoundTrip ==
    [][/\ (ret'.op = "save" /\ ret'.result > 0)
            => \E r \in rows' :
                  /\ SelectById(tableExists', rows', ret'.result) = {r}
                  /\ r.name = ret'.args[1]
                  /\ r.description = ret'.args[2]
                  /\ InputColumns(r) =
                        <<ret'.args[3][1], ret'.args[3][2], ret'.args[3][3],
                          ret'.args[3][4], ret'.args[3][5], ret'.args[3][6]>>
                  /\ ResultColumns(r) = Calc(ret'.args[3])
       /\ \A i \in LookupIds :
             (get_scenario(i) # None
                 /\ ~(ret'.op = "delete" /\ ret'.args[1] = i))
                => SelectById(tableExists', rows', i) = get_scenario(i)
       /\ (ret'.op = "get" /\ ret'.args[1] \in Ids)
            => \E r \in rows : r.id = ret'.args[1] /\ ret'.result = {r}]_vars

\* C7 witness: a scenario is read back after a later save and after the
\* delete of another scenario.
C7_Witness ==
    /\ ret.op = "get"
    /\ ret.result # None
    /\ \E i \in issued : i \notin Ids
    /\ \E i \in issued : i > ret.args[1]

\* C8: delete_scenario returns True exactly when a row with the identifier
\* was in the table before the call; it removes that row and no other, and
\* leaves the table unchanged when it returns False.
C8_DeleteExactlyThatRow ==
    [][ret'.op = "delete"
          => /\ ret'.result = (\E r \in rows : r.id = ret'.args[1])
             /\ rows' = {r \in rows : r.id # ret'.args[1]}
             /\ (~ret'.result => rows' = rows)]_vars

\* C8 witness: a delete returned True and another scenario is still stored.
C8_Witness == ret.op = "delete" /\ ret.result = TRUE /\ rows # {}

\* C9: a get_scenario that failed in the storage layer (here: the table does
\* not exist) does not return what a lookup without a match returns (None).
C9_StorageFailureDistinctFromNotFound ==
    (ret.op = "get" /\ ~tableExists) => ret.result # None

\* C10 as stated: on the returned values, gross_rate with redistribution is
\* gross_rate without it minus redistribution_amount, and
\* redistribution_amount is (net_rate - self_cost_rate) * 0.6 * margin.
Cents(c) == Norm(c, 100)

ChefEnabledStep ==
    /\ ret.op = "calc" /\ ret'.op = "calc"
    /\ ~ret.args[7] /\ ret'.args[7]
    /\ ~RaisesValueError(ret.args[1], ret.args[4])

C10_ExactOnReturnedValues ==
    [][ChefEnabledStep
          => /\ ret'.result[3] = ret.result[3] - ret'.result[5]
             /\ Cents(ret'.result[5]) =
                   RMul(RSub(Cents(ret.result[2]), Cents(ret.result[1])),
                        RMul(ChefShare, ret.args[5]))]_vars

\* C10 amended: with s = (w*c + o) / (w*h) unrounded and m the margin,
\* redistribution_amount is round2(s*m * 0.6*m), gross_rate with
\* redistribution is round2(s*(1+m)*(1+v) - s*m * 0.6*m), gross_rate without
\* it is round2(s*(1+m)*(1+v)); the returned values therefore satisfy
\* gross_with = gross_without - redistribution_amount up to one cent.
C10_RedistributionBeforeRounding ==
    [][ChefEnabledStep
          => LET a == ret.args
                 s == RDiv(RAdd(RMul(Rat(a[1]), a[2]), a[3]),
                           RMul(Rat(a[1]), a[4]))
                 d == RMul(s, a[5])
                 k == RMul(RMul(d, ChefShare), a[5])
                 g == RMul(RMul(s, RAdd(Rat(1), a[5])), RAdd(Rat(1), a[6]))
             IN  /\ ret'.result[5] = Round2(k)
                 /\ ret'.result[3] = Round2(RSub(g, k))
                 /\ ret.result[3] = Round2(g)
                 /\ Abs(ret'.result[3] - (ret.result[3] - ret'.result[5])) <= 1
        ]_vars

\* C10 witness: redistribution is enabled on a valid input and the returned
\* gross_rate is one cent away from gross_without - redistribution_amount.
C10_Witness ==
    /\ ret.op = "calc"
    /\ ret.args[7]
    /\ ~RaisesValueError(ret.args[1], ret.args[4])
    /\ ret.result[5] > 0
    /\ ret.result[3] # Calc(WithChef(ret.args, FALSE))[3] - ret.result[5]

\* C11 as stated: the example call (8, 60000, 230000, 1512, 0.15, 0.19,
\* redistribution disabled) returns self_cost_rate 60.19, net_rate 69.22 and
\* gross_rate 82.37.
C11_ExampleAsStated ==
    (ret.op = "calc" /\ ret.args = ExampleArgs)
        => /\ ret.result[1] = 6019
           /\ ret.result[2] = 6922
           /\ ret.result[3] = 8237

\* C11 amended: the example call returns self_cost_rate 58.70, net_rate 67.50
\* and gross_rate 80.33 (710000 / 12096 = 58.697..., times 1.15 = 67.501...,
\* times 1.19 = 80.327...).
C11_ExampleValues ==
    (ret.op = "calc" /\ ret.args = ExampleArgs)
        => /\ ret.result[1] = 5870
           /\ ret.result[2] = 6750
           /\ ret.result[3] = 8033

\* C11 witness: calc_hourwages has returned for the example call.
C11_Witness == ret.op = "calc" /\ ret.args = ExampleArgs /\ ret.result[1] > 0

\* The unrounded redistribution amount of an input: s * m * 0.6 * m with
\* s = (w*c + o) / (w*h).
ExactKondensat(a) ==
    RMul(RMul(RMul(RDiv(RAdd(RMul(Rat(a[1]), a[2]), a[3]),
                        RMul(Rat(a[1]), a[4])),
                   a[5]),
              ChefShare),
         a[5])

\* A step that enables redistribution on a valid input with margin > 0 and
\* non-negative costs.
ChefEnabledWithMargin ==
    /\ ChefEnabledStep
    /\ ~RLeq(ret.args[5], Rat(0))
    /\ RLeq(Rat(0), ret.args[2])
    /\ RLeq(Rat(0), ret.args[3])

\* C12 as stated: for every valid input with margin > 0, enabling
\* redistribution returns a nonzero redistribution_amount and a strictly
\* smaller gross_rate.
C12_AlwaysNonzeroAndSmaller ==
    [][ChefEnabledWithMargin
          => /\ ret'.result[5] # 0
             /\ ret'.result[3] < ret.result[3]]_vars

\* C12 amended: for every valid input with margin > 0 and non-negative costs,
\* redistribution_amount is >= 0 and gross_rate with redistribution is <=
\* gross_rate without; redistribution_amount is nonzero and gross_rate
\* strictly smaller whenever the unrounded redistribution amount is at least
\* 0.02 (as for the example call of C11).
C12_NonzeroAboveTwoCents ==
    [][ChefEnabledWithMargin
          => /\ ret'.result[5] >= 0
             /\ ret'.result[3] <= ret.result[3]
             /\ RLeq(<<1, 50>>, ExactKondensat(ret.args))
                   => /\ ret'.result[5] # 0
                      /\ ret'.result[3] < ret.result[3]]_vars

\* C12 witness: redistribution was enabled on an input with margin > 0 whose
\* unrounded redistribution amount is at least 0.02.
C12_Witness ==
    /\ ret.op = "calc"
    /\ ret.args[7]
    /\ ~RaisesValueError(ret.args[1], ret.args[4])
    /\ ~RLeq(ret.args[5], Rat(0))
    /\ RLeq(<<1, 50>>, ExactKondensat(ret.args))
    /\ ret.result[5] > 0
    /\ ret.result[3] < Calc(WithChef(ret.args, FALSE))[3]

\* The unrounded rates of an input with redistribution disabled:
\* <<s, s*(1+m), s*(1+m)*(1+v)>> with s = (w*c + o) / (w*h).
RateArgs(a) ==
    LET s == RDiv(RAdd(RMul(Rat(a[1]), a[2]), a[3]), RMul(Rat(a[1]), a[4]))
        n == RMul(s, RAdd(Rat(1), a[5]))
    IN  <<s, n, RMul(n, RAdd(Rat(1), a[6]))>>

\* C13: for worker_amount > 0 and hours > 0 with redistribution disabled the
\* returned self_cost_rate, net_rate and gross_rate are round2(s),
\* round2(s*(1+m)) and round2(s*(1+m)*(1+v)) of the unrounded quotient s:
\* each is rounded once, none is computed from a rounded value.
C13_RoundedOnceAtTheEnd ==
    (ret.op = "calc" /\ ~ret.args[7]
        /\ ~RaisesValueError(ret.args[1], ret.args[4]))
        => LET u == RateArgs(ret.args)
           IN  /\ ret.result[1] = Round2(u[1])
               /\ ret.result[2] = Round2(u[2])
               /\ ret.result[3] = Round2(u[3])

\* C13 witness: a valid call with redistribution disabled whose net_rate
\* differs from the one computed from the rounded self_cost_rate.
C13_Witness ==
    /\ ret.op = "calc"
    /\ ~ret.args[7]
    /\ ~RaisesValueError(ret.args[1], ret.args[4])
    /\ ret.result[2] #
          Round2(RMul(Norm(ret.result[1], 100), RAdd(Rat(1), ret.args[5])))

====
